---- MODULE Spec2Model ----
(***************************************************************************)
(* Model of package lscolors (charlievieth/lscolors): the LS_COLORS        *)
(* parser, the table serializer and the entry matcher.                     *)
(*                                                                         *)
(* Go strings are modelled as sequences of one-character strings; a        *)
(* *ColorExtension returned by a matcher is modelled as a reference        *)
(* (a slot of the table, an index into Exts, or &NoColor).                 *)
(***************************************************************************)
EXTENDS Integers, Sequences, FiniteSets, TLC

VARIABLES
    pc,        \* position of the driver ("start", "parsed", ... )
    input,     \* the clrs argument of the first ParseLSColors call
    ls,        \* table returned by that call (Nil when it returns nil)
    err,       \* error returned by that call
    invalid,   \* its rejected tokens, in order
    str,       \* result of ls.String()
    ls2,       \* table returned by a second ParseLSColors call
    err2,      \* error of the second call
    input2,    \* argument of the second call
    entry,     \* the directory entry handed to the matchers
    resEntry,  \* result of MatchEntry on entry
    resInfo,   \* result of MatchInfo on entry
    seqIn,     \* argument of validSequence
    seqOut,    \* its result
    extIn,     \* the rule key and the name given to MatchExt
    extOut     \* its result

vars == <<pc, input, ls, err, invalid, str, ls2, err2, input2,
          entry, resEntry, resInfo, seqIn, seqOut, extIn, extOut>>

Nil == "nil"           \* the nil error
None == "none"         \* no error value yet: the call has not been made
NilTable == [nil |-> TRUE]              \* the nil *LSColors
IsNil(t) == DOMAIN t = {"nil"}

(***************************************************************************)
(* Bounds                                                                  *)
(***************************************************************************)
MaxTokens == 3        \* tokens in an input of the parser
MaxMatchTokens == 2   \* tokens in the LS_COLORS value of the matcher runs
MaxSeqLen == 5        \* length of a validSequence argument
MaxNameLen == 3       \* length of a MatchExt name or key

(***************************************************************************)
(* Strings                                                                 *)
(***************************************************************************)
\* byte value of a character (Go compares strings bytewise)
ByteOf(c) ==
    CASE c = "*" -> 42 [] c = "." -> 46
      [] c = "0" -> 48 [] c = "1" -> 49 [] c = "2" -> 50 [] c = "3" -> 51
      [] c = "4" -> 52 [] c = "5" -> 53 [] c = "6" -> 54 [] c = "7" -> 55
      [] c = "8" -> 56 [] c = "9" -> 57
      [] c = ":" -> 58 [] c = ";" -> 59 [] c = "=" -> 61
      [] c = "a" -> 97 [] c = "b" -> 98 [] c = "c" -> 99 [] c = "d" -> 100
      [] c = "e" -> 101 [] c = "f" -> 102 [] c = "i" -> 105 [] c = "l" -> 108
      [] c = "m" -> 109 [] c = "n" -> 110 [] c = "o" -> 111 [] c = "p" -> 112
      [] c = "r" -> 114 [] c = "s" -> 115 [] c = "t" -> 116 [] c = "w" -> 119
      [] c = "x" -> 120 [] c = "z" -> 122

\* s[from:] with a 0-based Go index
SliceFrom(s, from) == SubSeq(s, from + 1, Len(s))

\* s[:to] with a 0-based Go index
SliceTo(s, to) == SubSeq(s, 1, to)

\* strings.IndexByte(s, c): 0-based index of the first c, -1 if absent
IndexByte(s, c) ==
    IF \E i \in 1..Len(s) : s[i] = c
    THEN (CHOOSE i \in 1..Len(s) : s[i] = c /\ \A j \in 1..(i-1) : s[j] # c) - 1
    ELSE -1

\* strings.Cut(s, "="): before, after, found
Cut(s, sep) ==
    LET i == IndexByte(s, sep) IN
    IF i >= 0
    THEN [before |-> SliceTo(s, i), after |-> SliceFrom(s, i + 1), found |-> TRUE]
    ELSE [before |-> s, after |-> <<>>, found |-> FALSE]

\* data[i], data[j] = data[j], data[i] for 1-based i < j
Swap(data, i, j) ==
    SubSeq(data, 1, i - 1) \o <<data[j]>> \o SubSeq(data, i + 1, j - 1)
      \o <<data[i]>> \o SubSeq(data, j + 1, Len(data))

\* strings.HasSuffix(s, suffix)
HasSuffix(s, suffix) ==
    /\ Len(s) >= Len(suffix)
    /\ SubSeq(s, Len(s) - Len(suffix) + 1, Len(s)) = suffix

\* strings.HasPrefix(s, prefix)
HasPrefix(s, prefix) ==
    /\ Len(s) >= Len(prefix)
    /\ SubSeq(s, 1, Len(prefix)) = prefix

\* Go's string comparison s < t (bytewise lexicographic)
RECURSIVE StrLess(_, _)
StrLess(s, t) ==
    IF t = <<>> THEN FALSE
    ELSE IF s = <<>> THEN TRUE
    ELSE IF ByteOf(s[1]) < ByteOf(t[1]) THEN TRUE
    ELSE IF ByteOf(s[1]) > ByteOf(t[1]) THEN FALSE
    ELSE StrLess(Tail(s), Tail(t))

(***************************************************************************)
(* ColorExtension                                                          *)
(***************************************************************************)
ColorExtension(ext, sq) == [Ext |-> ext, Seq |-> sq]

\* the zero value, also the value of the package variable NoColor
ZeroExt == ColorExtension(<<>>, <<>>)

\* (*ColorExtension).Empty
Empty(c) == c = ZeroExt

\* (*ColorExtension).MatchExt
MatchExt(c, name) ==
    LET i == Len(name)
        j == Len(c.Ext)
    IN  /\ i > 0
        /\ j > 0
        /\ j <= i
        /\ name[i] = c.Ext[j]
        /\ HasSuffix(name, c.Ext)

(***************************************************************************)
(* validSequence                                                           *)
(***************************************************************************)
isDigit(c) == ByteOf("0") <= ByteOf(c) /\ ByteOf(c) <= ByteOf("9")

\* the for loop of validSequence; i is the 0-based index, n the digit run
RECURSIVE validSequenceLoop(_, _, _)
validSequenceLoop(s, i, n) ==
    IF i >= Len(s) THEN isDigit(s[Len(s)])
    ELSE LET c == s[i + 1] IN
         IF isDigit(c)
         THEN IF n + 1 > 3 THEN FALSE ELSE validSequenceLoop(s, i + 1, n + 1)
         ELSE IF c = ";" THEN validSequenceLoop(s, i + 1, 0)
         ELSE FALSE

\* validSequence without the test of the first character
validSequenceNoHead(s) ==
    IF Len(s) = 0 THEN FALSE ELSE validSequenceLoop(s, 1, 1)

validSequence(s) ==
    IF Len(s) = 0 \/ ~isDigit(s[1]) THEN FALSE
    ELSE validSequenceLoop(s, 1, 1)

(***************************************************************************)
(* LSColors                                                                *)
(***************************************************************************)
SlotNames == {"DI", "FI", "LN", "PI", "SO", "BD", "CD", "OR", "MI", "EX",
              "TW", "NO", "ST", "OW"}

\* the zero value of LSColors (var ls LSColors)
ZeroLSColors ==
    [DI |-> ZeroExt, FI |-> ZeroExt, LN |-> ZeroExt, PI |-> ZeroExt,
     SO |-> ZeroExt, BD |-> ZeroExt, CD |-> ZeroExt, OR |-> ZeroExt,
     MI |-> ZeroExt, EX |-> ZeroExt, TW |-> ZeroExt, NO |-> ZeroExt,
     ST |-> ZeroExt, OW |-> ZeroExt, Exts |-> <<>>]

\* the cases of the switch on k in ParseLSColors: key -> field
FixedKeys ==
    {<<"d","i">>, <<"f","i">>, <<"l","n">>, <<"p","i">>, <<"s","o">>,
     <<"b","d">>, <<"c","d">>, <<"o","r">>, <<"m","i">>, <<"e","x">>,
     <<"t","w">>, <<"n","o">>, <<"s","t">>, <<"o","w">>}

FieldOf(k) ==
    CASE k = <<"d","i">> -> "DI" [] k = <<"f","i">> -> "FI"
      [] k = <<"l","n">> -> "LN" [] k = <<"p","i">> -> "PI"
      [] k = <<"s","o">> -> "SO" [] k = <<"b","d">> -> "BD"
      [] k = <<"c","d">> -> "CD" [] k = <<"o","r">> -> "OR"
      [] k = <<"m","i">> -> "MI" [] k = <<"e","x">> -> "EX"
      [] k = <<"t","w">> -> "TW" [] k = <<"n","o">> -> "NO"
      [] k = <<"s","t">> -> "ST" [] k = <<"o","w">> -> "OW"

\* the less function handed to sort.Slice, on the keys of two rules
lessExt(e1, e2) ==
    IF Len(e1) < Len(e2) THEN TRUE
    ELSE IF Len(e1) > Len(e2) THEN FALSE
    ELSE StrLess(e1, e2)

\* inner loop of the insertion sort: sink data[j] while it is less than
\* its left neighbour (j is 1-based)
RECURSIVE sortSink(_, _)
sortSink(data, j) ==
    IF j > 1 /\ lessExt(data[j].Ext, data[j-1].Ext)
    THEN sortSink(Swap(data, j - 1, j), j - 1)
    ELSE data

RECURSIVE sortFrom(_, _)
sortFrom(data, i) ==
    IF i > Len(data) THEN data ELSE sortFrom(sortSink(data, i), i + 1)

\* sort.Slice(ls.Exts, less): for slices of at most 12 elements the
\* standard library runs an insertion sort
sortSlice(data) == sortFrom(data, 2)

\* one iteration of the for loop of ParseLSColors: the token s is cut from
\* the front of clrs
NextToken(clrs) ==
    LET i == IndexByte(clrs, ":") IN
    IF i >= 0
    THEN [s |-> SliceTo(clrs, i), rest |-> SliceFrom(clrs, i + 1)]
    ELSE [s |-> clrs, rest |-> <<>>]

\* the body of the loop after the token is cut: the switch on the key
ParseToken(tab, inv, s) ==
    LET c == Cut(s, "=")
        k == c.before
        v == c.after
    IN  IF ~c.found \/ k = <<>> \/ v = <<>>
        THEN [ls |-> tab, invalid |-> Append(inv, s)]
        ELSE IF k \in FixedKeys
        THEN [ls |-> [tab EXCEPT ![FieldOf(k)] = ColorExtension(k, v)],
              invalid |-> inv]
        ELSE IF HasPrefix(k, <<"*">>)
        THEN IF ~validSequence(v)
             THEN [ls |-> tab, invalid |-> Append(inv, s)]
             ELSE [ls |-> [tab EXCEPT !.Exts =
                                Append(@, ColorExtension(SliceFrom(k, 1), v))],
                   invalid |-> inv]
        ELSE [ls |-> tab, invalid |-> Append(inv, s)]

\* for len(clrs) > 0 { ... }
RECURSIVE ParseLoop(_, _, _)
ParseLoop(clrs, tab, inv) ==
    IF Len(clrs) = 0 THEN [ls |-> tab, invalid |-> inv]
    ELSE LET t == NextToken(clrs)
             r == ParseToken(tab, inv, t.s)
         IN  ParseLoop(t.rest, r.ls, r.invalid)

\* ParseLSColors returning no table when a token was rejected
ParseLSColorsNilOnError(clrs) ==
    IF clrs = <<>>
    THEN [ls |-> NilTable, err |-> "empty", invalid |-> <<>>]
    ELSE LET r == ParseLoop(clrs, ZeroLSColors, <<>>)
             sorted == [r.ls EXCEPT !.Exts = sortSlice(@)]
         IN  IF Len(r.invalid) > 0
             THEN [ls |-> NilTable, err |-> "unparsable", invalid |-> r.invalid]
             ELSE [ls |-> sorted, err |-> Nil, invalid |-> r.invalid]

\* ParseLSColors: (table, error, rejected tokens)
ParseLSColors(clrs) ==
    IF clrs = <<>>
    THEN [ls |-> NilTable, err |-> "empty", invalid |-> <<>>]
    ELSE LET r == ParseLoop(clrs, ZeroLSColors, <<>>)
             sorted == [r.ls EXCEPT !.Exts = sortSlice(@)]
         IN  [ls |-> sorted,
              err |-> IF Len(r.invalid) > 0 THEN "unparsable" ELSE Nil,
              invalid |-> r.invalid]

\* the slots String writes, in its order
StringSlots == <<"DI", "FI", "LN", "PI", "SO", "BD", "CD", "OR", "MI", "EX">>

\* w.WriteByte(':') when the builder is not empty
WithSep(w) == IF Len(w) > 0 THEN w \o <<":">> ELSE w

RECURSIVE StringFixed(_, _, _)
StringFixed(c, i, w) ==
    IF i > Len(StringSlots) THEN w
    ELSE LET e == c[StringSlots[i]] IN
         IF Len(e.Ext) # 0 /\ Len(e.Seq) # 0
         THEN StringFixed(c, i + 1, WithSep(w) \o e.Ext \o <<"=">> \o e.Seq)
         ELSE StringFixed(c, i + 1, w)

RECURSIVE StringExts(_, _, _)
StringExts(c, i, w) ==
    IF i > Len(c.Exts) THEN w
    ELSE LET e == c.Exts[i] IN
         IF Len(e.Ext) = 0 \/ Len(e.Seq) = 0
         THEN StringExts(c, i + 1, w)
         ELSE StringExts(c, i + 1,
                         WithSep(w) \o <<"*">> \o e.Ext \o <<"=">> \o e.Seq)

\* LSColors.String
String(c) == StringExts(c, 1, StringFixed(c, 1, <<>>))

(***************************************************************************)
(* fs.FileMode, fs.DirEntry, fs.FileInfo                                   *)
(*                                                                         *)
(* A FileMode is the set of its bits.  "0100" stands for the execute bits  *)
(* (0111) and "0400" for the other permission bits.                        *)
(***************************************************************************)
ModeDir == "ModeDir"
ModeSymlink == "ModeSymlink"
ModeNamedPipe == "ModeNamedPipe"
ModeSocket == "ModeSocket"
ModeDevice == "ModeDevice"
ModeCharDevice == "ModeCharDevice"
ModeIrregular == "ModeIrregular"

ModeType == {ModeDir, ModeSymlink, ModeNamedPipe, ModeSocket, ModeDevice,
             ModeCharDevice, ModeIrregular}

ExecBits == {"0100"}

\* FileMode.IsDir, FileMode.IsRegular, FileMode.Type
IsDir(m) == ModeDir \in m
IsRegular(m) == m \cap ModeType = {}
TypeOf(m) == m \cap ModeType

\* isBrokenLink: whether the Stat of the entry (or of path) fails
isBrokenLink(d) == d.broken

(***************************************************************************)
(* Matching                                                                *)
(***************************************************************************)
Ref(kind, slot, idx) == [kind |-> kind, slot |-> slot, idx |-> idx]
SlotRef(slot) == Ref("slot", slot, 0)      \* &c.DI, &c.EX, ...
ExtRef(i) == Ref("ext", "", i)             \* &c.Exts[i]
NoColorRef == Ref("NoColor", "", 0)        \* &NoColor
NilRef == Ref("nil", "", 0)                \* the nil pointer
NoResult == Ref("none", "", 0)             \* no call made yet

\* the ColorExtension a returned pointer points to
Deref(c, r) ==
    IF r.kind = "slot" THEN c[r.slot]
    ELSE IF r.kind = "ext" THEN c.Exts[r.idx]
    ELSE ZeroExt

\* the loop of matchExt; i is the 1-based index, sfx the last match
RECURSIVE matchExtLoop(_, _, _, _)
matchExtLoop(c, name, i, sfx) ==
    IF i > Len(c.Exts) THEN sfx
    ELSE LET e == c.Exts[i] IN
         IF Len(e.Ext) > Len(name) THEN sfx
         ELSE IF MatchExt(e, name)
              THEN matchExtLoop(c, name, i + 1, ExtRef(i))
              ELSE matchExtLoop(c, name, i + 1, sfx)

\* (*LSColors).matchExt
matchExt(c, name) == matchExtLoop(c, name, 1, NilRef)

\* the tail shared by both matchers: extension override, then NoColor
MatchTail(c, typ, name, ext) ==
    LET e == IF IsRegular(typ) /\ ext # SlotRef("EX")
             THEN matchExt(c, name) ELSE NilRef
    IN  IF e # NilRef THEN e
        ELSE IF ext = NilRef THEN NoColorRef
        ELSE ext

\* the symlink case of both switches
SymlinkCase(c, d) ==
    LET ext1 == IF ~Empty(c.LN) THEN SlotRef("LN") ELSE NilRef IN
    IF ~Empty(c.OR) /\ isBrokenLink(d) THEN SlotRef("OR") ELSE ext1

\* (*LSColors).MatchEntry(path, d)
MatchEntry(c, d) ==
    LET typ == d.typ
        ext ==
          IF IsDir(typ) /\ ~Empty(c.DI) THEN SlotRef("DI")
          ELSE IF IsRegular(typ)
               THEN IF typ \cap ExecBits # {} /\ ~Empty(c.EX) THEN SlotRef("EX")
                    ELSE IF ~Empty(c.FI) THEN SlotRef("FI")
                    ELSE NilRef
          ELSE IF ModeSymlink \in typ THEN SymlinkCase(c, d)
          ELSE IF ModeNamedPipe \in typ /\ ~Empty(c.PI) THEN SlotRef("PI")
          ELSE IF ModeSocket \in typ /\ ~Empty(c.PI) THEN SlotRef("PI")
          ELSE IF ModeDevice \in typ /\ ~Empty(c.BD) THEN SlotRef("BD")
          ELSE IF ModeCharDevice \in typ /\ ~Empty(c.CD) THEN SlotRef("CD")
          ELSE IF typ \cap ExecBits # {} /\ ~Empty(c.EX) THEN SlotRef("EX")
          ELSE IF ~Empty(c.OR) THEN SlotRef("OR")
          ELSE NilRef
    IN  MatchTail(c, typ, d.name, ext)

\* (*LSColors).MatchInfo(path, d)
MatchInfo(c, d) ==
    LET typ == d.mode
        ext ==
          IF IsDir(typ) /\ ~Empty(c.DI) THEN SlotRef("DI")
          ELSE IF IsRegular(typ)
               THEN IF typ \cap ExecBits # {} /\ ~Empty(c.EX) THEN SlotRef("EX")
                    ELSE IF ~Empty(c.FI) THEN SlotRef("FI")
                    ELSE NilRef
          ELSE IF ModeSymlink \in typ THEN SymlinkCase(c, d)
          ELSE IF ModeNamedPipe \in typ /\ ~Empty(c.PI) THEN SlotRef("PI")
          ELSE IF ModeSocket \in typ /\ ~Empty(c.PI) THEN SlotRef("PI")
          ELSE IF ModeDevice \in typ /\ ~Empty(c.BD) THEN SlotRef("BD")
          ELSE IF ModeCharDevice \in typ /\ ~Empty(c.CD) THEN SlotRef("CD")
          ELSE IF ~Empty(c.OR) THEN SlotRef("OR")
          ELSE NilRef
    IN  MatchTail(c, typ, d.name, ext)

(***************************************************************************)
(* Inputs                                                                  *)
(***************************************************************************)
\* tokens the parser inputs are built from: well-formed and malformed
TokenPool ==
    { <<>>,                                   \* empty token
      <<"d","i">>,                            \* no '='
      <<"=","1">>,                            \* empty key
      <<"d","i","=">>,                        \* empty value
      <<"d","i","=","1">>,
      <<"d","i","=",";">>,                    \* fixed code, not a sequence
      <<"t","w","=","2">>,
      <<"z","=","1">>,                        \* neither fixed nor '*'
      <<"*","c","=","1">>,
      <<"*","c","=","2">>,                    \* same key, other sequence
      <<"*","b","=","3">>,
      <<"*","b","c","=","4">>,
      <<"*","=","5">>,                        \* empty extension key
      <<"*","c","=","1",";">> }               \* extension, bad sequence

\* tokens of the LS_COLORS values of the matcher runs
MatchPool ==
    { <<"d","i","=","1">>, <<"f","i","=","2">>, <<"e","x","=","3">>,
      <<"l","n","=","4">>, <<"o","r","=","5">>, <<"b","d","=","6">>,
      <<"c","d","=","7">>, <<"*","c","=","8">>, <<"*","b","c","=","9">>,
      <<"*","=","1">> }

\* strings.Join(ts, ":")
RECURSIVE Join(_)
Join(ts) ==
    IF Len(ts) = 0 THEN <<>>
    ELSE IF Len(ts) = 1 THEN ts[1]
    ELSE ts[1] \o <<":">> \o Join(Tail(ts))

\* the sequences over alphabet of length at most n
RECURSIVE Strings(_, _)
Strings(alphabet, n) ==
    IF n = 0 THEN {<<>>}
    ELSE LET shorter == Strings(alphabet, n - 1) IN
         shorter \cup {Append(q, a) : q \in shorter, a \in alphabet}

TokenLists(pool, n) == Strings(pool, n) \ {<<>>}

\* the inputs of ParseLSColors: joined tokens, with or without a final ':'
Inputs ==
    {Join(ts) \o tr : ts \in TokenLists(TokenPool, MaxTokens),
                      tr \in {<<>>, <<":">>}}

\* the values of the LS_COLORS environment variable in the matcher runs
MatchInputs == {Join(ts) : ts \in TokenLists(MatchPool, MaxMatchTokens)}

\* arguments of validSequence
SeqAlphabet == {"0", "1", "3", "4", ";", "m"}
SeqInputs == Strings(SeqAlphabet, MaxSeqLen)

\* keys and names given to MatchExt
NameAlphabet == {"b", "c", "."}
NameInputs == Strings(NameAlphabet, MaxNameLen)

\* the type bits the platform reports: a character device carries
\* ModeDevice|ModeCharDevice, a block device ModeDevice alone
PlatformTypes ==
    { {}, {ModeDir}, {ModeSymlink}, {ModeNamedPipe}, {ModeSocket},
      {ModeDevice}, {ModeDevice, ModeCharDevice}, {ModeIrregular} }

PermBits == { {"0400"}, {"0400", "0100"} }

EntryNames == { <<"c">>, <<"b","c">>, <<"a">> }

\* the entries of a walk.  mode is what FileInfo.Mode() returns; typ is
\* what DirEntry.Type() returns: the type bits alone for the standard
\* implementations, all the bits for an implementation that forwards Mode().
Entries ==
    { [name |-> n, mode |-> t \cup p,
       typ |-> IF full THEN t \cup p ELSE TypeOf(t \cup p), broken |-> b] :
        n \in EntryNames, t \in PlatformTypes, p \in PermBits,
        full \in BOOLEAN, b \in BOOLEAN }

\* the value of entry before the walk has produced one
NoEntry == [name |-> <<>>, mode |-> {}, typ |-> {}, broken |-> FALSE]

WalkEntries == {d \in Entries : d.broken => ModeSymlink \in d.mode}

(***************************************************************************)
(* The tokens of an input, as the loop of ParseLSColors cuts them          *)
(***************************************************************************)
RECURSIVE Tokens(_)
Tokens(clrs) ==
    IF Len(clrs) = 0 THEN <<>>
    ELSE LET t == NextToken(clrs) IN <<t.s>> \o Tokens(t.rest)


(***************************************************************************)
(* State machine                                                           *)
(***************************************************************************)
Init ==
    /\ pc = "start"
    /\ input = <<>> /\ ls = NilTable /\ err = None /\ invalid = <<>>
    /\ str = <<>>
    /\ input2 = <<>> /\ ls2 = NilTable /\ err2 = None
    /\ entry = NoEntry /\ resEntry = NoResult /\ resInfo = NoResult
    /\ seqIn = <<>> /\ seqOut = FALSE
    /\ extIn = [ext |-> <<>>, name |-> <<>>] /\ extOut = FALSE

\* a caller parses an LS_COLORS text
Parse ==
    /\ pc = "start"
    /\ \E clrs \in Inputs :
         LET r == ParseLSColors(clrs) IN
         /\ input' = clrs
         /\ ls' = r.ls
         /\ err' = r.err
         /\ invalid' = r.invalid
    /\ pc' = "parsed"
    /\ UNCHANGED <<str, input2, ls2, err2, entry, resEntry, resInfo,
                   seqIn, seqOut, extIn, extOut>>

\* ls.String() on the table returned by Parse
Serialize ==
    /\ pc = "parsed"
    /\ ~IsNil(ls)
    /\ str' = String(ls)
    /\ pc' = "serialized"
    /\ UNCHANGED <<input, ls, err, invalid, input2, ls2, err2, entry,
                   resEntry, resInfo, seqIn, seqOut, extIn, extOut>>

\* ParseLSColors(ls.String())
Reparse ==
    /\ pc = "serialized"
    /\ LET r == ParseLSColors(str) IN
         /\ input2' = str
         /\ ls2' = r.ls
         /\ err2' = r.err
    /\ pc' = "reparsed"
    /\ UNCHANGED <<input, ls, err, invalid, str, entry, resEntry, resInfo,
                   seqIn, seqOut, extIn, extOut>>

\* ParseLSColors on the same tokens with two of them exchanged
ParseReordered ==
    /\ pc = "parsed"
    /\ ~IsNil(ls)
    /\ LET ts == Tokens(input) IN
       \E i \in 1..Len(ts), j \in 1..Len(ts) :
         /\ i < j
         /\ LET clrs == Join(Swap(ts, i, j))
                r == ParseLSColors(clrs)
            IN  /\ input2' = clrs
                /\ ls2' = r.ls
                /\ err2' = r.err
    /\ pc' = "reordered"
    /\ UNCHANGED <<input, ls, err, invalid, str, entry, resEntry, resInfo,
                   seqIn, seqOut, extIn, extOut>>

\* os.LookupEnv("LS_COLORS"): the value and whether the variable is set
LookupEnv ==
    {[clrs |-> <<>>, ok |-> FALSE]} \cup
    {[clrs |-> c, ok |-> TRUE] : c \in MatchInputs \cup {<<>>}}

\* NewLSColors: the table of the LS_COLORS environment variable
NewLSColors ==
    /\ pc = "start"
    /\ \E env \in LookupEnv :
         LET r == IF ~env.ok
                  THEN [ls |-> NilTable, err |-> "not set", invalid |-> <<>>]
                  ELSE ParseLSColors(env.clrs)
         IN  /\ input' = env.clrs
             /\ ls' = r.ls
             /\ err' = r.err
             /\ invalid' = r.invalid
    /\ pc' = "ready"
    /\ UNCHANGED <<str, input2, ls2, err2, entry, resEntry, resInfo,
                   seqIn, seqOut, extIn, extOut>>

\* the walk hands an entry to its callback
Walk ==
    /\ pc = "ready"
    /\ ~IsNil(ls)
    /\ \E d \in WalkEntries : entry' = d
    /\ resEntry' = NoResult
    /\ resInfo' = NoResult
    /\ pc' = "entry"
    /\ UNCHANGED <<input, ls, err, invalid, str, input2, ls2, err2,
                   seqIn, seqOut, extIn, extOut>>

\* ls.MatchEntry(path, d)
CallMatchEntry ==
    /\ pc = "entry"
    /\ resEntry = NoResult
    /\ resEntry' = MatchEntry(ls, entry)
    /\ UNCHANGED <<pc, input, ls, err, invalid, str, input2, ls2, err2,
                   entry, resInfo, seqIn, seqOut, extIn, extOut>>

\* ls.MatchInfo(path, info)
CallMatchInfo ==
    /\ pc = "entry"
    /\ resInfo = NoResult
    /\ resInfo' = MatchInfo(ls, entry)
    /\ UNCHANGED <<pc, input, ls, err, invalid, str, input2, ls2, err2,
                   entry, resEntry, seqIn, seqOut, extIn, extOut>>

\* validSequence(s)
CallValidSequence ==
    /\ pc = "start"
    /\ \E s \in SeqInputs :
         /\ seqIn' = s
         /\ seqOut' = validSequence(s)
    /\ pc' = "seq"
    /\ UNCHANGED <<input, ls, err, invalid, str, input2, ls2, err2, entry,
                   resEntry, resInfo, extIn, extOut>>

\* c.MatchExt(name)
CallMatchExt ==
    /\ pc = "start"
    /\ \E k \in NameInputs, n \in NameInputs :
         /\ extIn' = [ext |-> k, name |-> n]
         /\ extOut' = MatchExt(ColorExtension(k, <<"1">>), n)
    /\ pc' = "ext"
    /\ UNCHANGED <<input, ls, err, invalid, str, input2, ls2, err2, entry,
                   resEntry, resInfo, seqIn, seqOut>>

Next ==
    \/ Parse
    \/ Serialize
    \/ Reparse
    \/ ParseReordered
    \/ NewLSColors
    \/ Walk
    \/ CallMatchEntry
    \/ CallMatchInfo
    \/ CallValidSequence
    \/ CallMatchExt

Spec == Init /\ [][Next]_vars

(***************************************************************************)
(* Vocabulary of the properties, stated independently of the code          *)
(***************************************************************************)
Digits == {"0", "1", "2", "3", "4", "5", "6", "7", "8", "9"}

SeqToSet(q) == {q[i] : i \in 1..Len(q)}

\* the sequence grammar: non-empty, digits and ';' only, first and last
\* character a digit, no run of more than 3 digits
InGrammar(s) ==
    /\ Len(s) > 0
    /\ \A i \in 1..Len(s) : s[i] \in Digits \cup {";"}
    /\ s[1] \in Digits
    /\ s[Len(s)] \in Digits
    /\ ~ \E i \in 1..(Len(s) - 3) : \A k \in 0..3 : s[i + k] \in Digits

\* the ':'-split of a text: the pieces between consecutive ':'
ColonPositions(s) == {i \in 1..Len(s) : s[i] = ":"}
SplitColon(s) ==
    LET cuts == ColonPositions(s)
        n == Cardinality(cuts)
        \* 1-based position of the k-th ':' (0 for k = 0, Len+1 for k = n+1)
        pos(k) == IF k = 0 THEN 0
                  ELSE IF k = n + 1 THEN Len(s) + 1
                  ELSE CHOOSE i \in cuts :
                         Cardinality({j \in cuts : j <= i}) = k
    IN  [k \in 1..(n + 1) |-> SubSeq(s, pos(k - 1) + 1, pos(k) - 1)]

\* the ':'-split without the empty piece that follows a final ':'
SplitColonTerminated(s) ==
    LET ts == SplitColon(s) IN
    IF Len(s) > 0 /\ s[Len(s)] = ":" THEN SubSeq(ts, 1, Len(ts) - 1) ELSE ts

\* key and value of a token: the text before and after its first '='
HasEq(t) == \E i \in 1..Len(t) : t[i] = "="
FirstEq(t) == CHOOSE i \in 1..Len(t) : t[i] = "=" /\ \A j \in 1..(i-1) : t[j] # "="
KeyOf(t) == SubSeq(t, 1, FirstEq(t) - 1)
ValueOf(t) == SubSeq(t, FirstEq(t) + 1, Len(t))

IsKeyValue(t) == HasEq(t) /\ KeyOf(t) # <<>> /\ ValueOf(t) # <<>>
IsFixedToken(t) == IsKeyValue(t) /\ KeyOf(t) \in FixedKeys
IsExtToken(t) == IsKeyValue(t) /\ KeyOf(t) \notin FixedKeys /\ KeyOf(t)[1] = "*"
ExtOf(t) == SubSeq(KeyOf(t), 2, Len(KeyOf(t)))

\* a token the parser is to reject
Rejectable(t) ==
    \/ ~IsKeyValue(t)
    \/ ~IsFixedToken(t) /\ ~IsExtToken(t)
    \/ IsExtToken(t) /\ ~InGrammar(ValueOf(t))

\* the table holds every valid token of ts: each valid extension token as
\* a rule, and in each fixed slot the value of the last token of its code
HoldsValidTokens(tab, ts) ==
    /\ \A i \in 1..Len(ts) :
         IsExtToken(ts[i]) /\ InGrammar(ValueOf(ts[i])) =>
           \E j \in 1..Len(tab.Exts) :
             tab.Exts[j] = ColorExtension(ExtOf(ts[i]), ValueOf(ts[i]))
    /\ Len(tab.Exts) =
         Cardinality({i \in 1..Len(ts) :
                        IsExtToken(ts[i]) /\ InGrammar(ValueOf(ts[i]))})
    /\ \A i \in 1..Len(ts) :
         (IsFixedToken(ts[i]) /\
          \A j \in (i+1)..Len(ts) :
            ~(IsFixedToken(ts[j]) /\ KeyOf(ts[j]) = KeyOf(ts[i]))) =>
           tab[FieldOf(KeyOf(ts[i]))] =
             ColorExtension(KeyOf(ts[i]), ValueOf(ts[i]))

\* the outcome the claim C5 describes for a parse of text whose tokens are ts
ParseOutcome(text, ts, tab, e, inv) ==
    IF text = <<>>
    THEN IsNil(tab) /\ e # Nil
    ELSE /\ ~IsNil(tab)
         /\ SeqToSet(inv) = {t \in SeqToSet(ts) : Rejectable(t)}
         /\ (e # Nil) <=> (\E t \in SeqToSet(ts) : Rejectable(t))
         /\ HoldsValidTokens(tab, ts)

(***************************************************************************)
(* C5                                                                      *)
(***************************************************************************)
\* C5 (as claimed): for a non-empty input the parser returns a non-nil
\* table holding every valid token and rejects exactly the rejectable
\* tokens of the ':'-split of the input, the empty token after a trailing
\* ':' included; the error is set iff a token is rejected; the empty input
\* yields an error and no table.
C5_Original ==
    pc = "parsed" =>
      ParseOutcome(input, SplitColon(input), ls, err, invalid)

\* C5 (amended): the same, where a final ':' terminates the last token and
\* produces no empty token of its own.
C5_ParseRejects ==
    pc = "parsed" =>
      ParseOutcome(input, SplitColonTerminated(input), ls, err, invalid)

\* a parse of a text ending in ':' with a fixed code, a rule and one reject
C5_Witness ==
    /\ pc = "parsed"
    /\ Len(input) > 0
    /\ input[Len(input)] = ":"
    /\ Len(invalid) = 1
    /\ Len(ls.Exts) = 1
    /\ ~Empty(ls.DI)
    /\ err = "unparsable"

(***************************************************************************)
(* C6                                                                      *)
(***************************************************************************)
\* C6: validSequence accepts exactly the strings of the sequence grammar;
\* the parser adds the rule (ext, v) of an extension token *ext=v exactly
\* when v is in the grammar and otherwise rejects the token and leaves it
\* out; fixed-code tokens are stored verbatim, whatever their value.
C6_SequenceGrammar ==
    /\ pc = "seq" => (seqOut <=> InGrammar(seqIn))
    /\ validSequence(<<"0","1",";","3","4">>)
    /\ validSequence(<<"1",";","2",";","3">>)
    /\ ~validSequence(<<>>)
    /\ ~validSequence(<<"3","4",";">>)
    /\ ~validSequence(<<"1","2","3","4">>)
    /\ ~validSequence(<<"0","1","2","3">>)
    /\ pc = "parsed" /\ ~IsNil(ls) =>
         LET ts == SplitColon(input) IN
         \A i \in 1..Len(ts) :
           /\ IsExtToken(ts[i]) =>
                LET rule == ColorExtension(ExtOf(ts[i]), ValueOf(ts[i])) IN
                /\ InGrammar(ValueOf(ts[i])) <=> rule \in SeqToSet(ls.Exts)
                /\ InGrammar(ValueOf(ts[i])) <=> ts[i] \notin SeqToSet(invalid)
           /\ IsFixedToken(ts[i]) =>
                /\ ts[i] \notin SeqToSet(invalid)
                /\ \E j \in i..Len(ts) :
                     /\ IsFixedToken(ts[j]) /\ KeyOf(ts[j]) = KeyOf(ts[i])
                     /\ ls[FieldOf(KeyOf(ts[i]))] =
                          ColorExtension(KeyOf(ts[j]), ValueOf(ts[j]))

\* a parse that stored one extension token, rejected another for its
\* sequence and stored a fixed code whose value is not a sequence
C6_Witness ==
    /\ pc = "parsed"
    /\ ~IsNil(ls)
    /\ ColorExtension(<<"c">>, <<"1">>) \in SeqToSet(ls.Exts)
    /\ <<"*","c","=","1",";">> \in SeqToSet(invalid)
    /\ ls.DI = ColorExtension(<<"d","i">>, <<";">>)

(***************************************************************************)
(* C1                                                                      *)
(***************************************************************************)
\* the sequence a matcher decides on for entry d under table tab
DecisionEntry(tab, d) == Deref(tab, MatchEntry(tab, d)).Seq
DecisionInfo(tab, d) == Deref(tab, MatchInfo(tab, d)).Seq

SameDecisions(t1, t2) ==
    \A d \in Entries :
      /\ DecisionEntry(t1, d) = DecisionEntry(t2, d)
      /\ DecisionInfo(t1, d) = DecisionInfo(t2, d)

\* C1: round trip: when ParseLSColors returned a table T without an error,
\* ParseLSColors(T.String()) returns a table, and that table gives the same
\* match decision as T for every entry.
C1_RoundTrip ==
    pc = "reparsed" /\ err = Nil =>
      /\ ~IsNil(ls2)
      /\ SameDecisions(ls, ls2)

(***************************************************************************)
(* C7                                                                      *)
(***************************************************************************)
\* ascending key length, then ascending key
SortedExts(exts) ==
    \A i \in 1..Len(exts), j \in 1..Len(exts) :
      i < j =>
        \/ Len(exts[i].Ext) < Len(exts[j].Ext)
        \/ /\ Len(exts[i].Ext) = Len(exts[j].Ext)
           /\ ~StrLess(exts[j].Ext, exts[i].Ext)

\* C7: the extension collection of a returned table is sorted by key length
\* and then by key, and an input with the same tokens in another order
\* yields the same ordered extension collection.
C7_OrderIndependent ==
    /\ pc = "parsed" /\ ~IsNil(ls) => SortedExts(ls.Exts)
    /\ pc = "reordered" =>
         /\ SortedExts(ls2.Exts)
         /\ ls2.Exts = ls.Exts

(***************************************************************************)
(* C8                                                                      *)
(***************************************************************************)
\* the tokens String is claimed to emit for the fixed slots and the rules
FixedTokensOf(tab) ==
    {tab[f].Ext \o <<"=">> \o tab[f].Seq : f \in {g \in SlotNames : tab[g].Seq # <<>>}}

RECURSIVE ExtTokensOf(_)
ExtTokensOf(exts) ==
    IF exts = <<>> THEN <<>>
    ELSE IF Head(exts).Seq = <<>> THEN ExtTokensOf(Tail(exts))
    ELSE <<(<<"*">> \o Head(exts).Ext \o <<"=">> \o Head(exts).Seq)>>
           \o ExtTokensOf(Tail(exts))

\* C8: String emits every fixed slot with a non-empty sequence (all 14
\* codes) as key=seq before any rule, then every rule with a non-empty
\* sequence as *ext=seq in stored order, joined by ':'.
C8_StringEmitsAll ==
    pc = "serialized" =>
      LET fixed == FixedTokensOf(ls)
          rules == ExtTokensOf(ls.Exts)
          f == Cardinality(fixed)
          out == IF str = <<>> THEN <<>> ELSE SplitColon(str)
      IN  /\ Len(out) = f + Len(rules)
          /\ SeqToSet(SubSeq(out, 1, f)) = fixed
          /\ SubSeq(out, f + 1, Len(out)) = rules

(***************************************************************************)
(* C9                                                                      *)
(***************************************************************************)
\* C9: MatchExt(name) is true exactly when the key is no longer than the
\* name and the name ends with the key, the empty key and the empty name
\* included.
C9_MatchExtIsSuffix ==
    pc = "ext" =>
      (extOut <=> (Len(extIn.ext) <= Len(extIn.name)
                     /\ HasSuffix(extIn.name, extIn.ext)))

(***************************************************************************)
(* C2, C3, C4, C10                                                         *)
(***************************************************************************)
\* the results the matchers have returned for the current entry
Returned == {r \in {resEntry, resInfo} : r # NoResult}

\* C2: with a non-empty ex slot, a regular file with an execute permission
\* bit is matched to the ex slot by MatchEntry and by MatchInfo.
C2_ExecutablePrecedence ==
    (/\ pc = "entry"
     /\ ~Empty(ls.EX)
     /\ IsRegular(entry.mode)
     /\ entry.mode \cap ExecBits # {})
    => \A r \in Returned : r = SlotRef("EX")

\* C3: with a non-empty cd slot a character device is matched to cd,
\* whether or not bd is configured; with a non-empty bd slot a block device
\* is matched to bd.
C3_Devices ==
    pc = "entry" =>
      /\ (TypeOf(entry.mode) = {ModeDevice, ModeCharDevice} /\ ~Empty(ls.CD))
           => \A r \in Returned : r = SlotRef("CD")
      /\ (TypeOf(entry.mode) = {ModeDevice} /\ ~Empty(ls.BD))
           => \A r \in Returned : r = SlotRef("BD")

\* the rules whose key is a suffix of the name
SuffixRules(tab, name) ==
    {i \in 1..Len(tab.Exts) : HasSuffix(name, tab.Exts[i].Ext)}

LongestSuffixRule(tab, name, r) ==
    /\ r.kind = "ext"
    /\ r.idx \in SuffixRules(tab, name)
    /\ \A i \in SuffixRules(tab, name) :
         Len(tab.Exts[i].Ext) <= Len(tab.Exts[r.idx].Ext)

\* C4: for a regular file for which ex was not selected, when some rule's
\* key is a suffix of the name, the result is a rule with the longest such
\* key.
C4_LongestMatch ==
    pc = "entry" =>
      /\ (/\ resEntry # NoResult
          /\ IsRegular(entry.typ)
          /\ resEntry # SlotRef("EX")
          /\ SuffixRules(ls, entry.name) # {})
           => LongestSuffixRule(ls, entry.name, resEntry)
      /\ (/\ resInfo # NoResult
          /\ IsRegular(entry.mode)
          /\ resInfo # SlotRef("EX")
          /\ SuffixRules(ls, entry.name) # {})
           => LongestSuffixRule(ls, entry.name, resInfo)

\* C10: when Type() and Mode() carry the same bits, MatchEntry and
\* MatchInfo return the same rule for the entry.
C10_MatchersAgree ==
    (/\ pc = "entry"
     /\ entry.typ = entry.mode
     /\ resEntry # NoResult
     /\ resInfo # NoResult)
    => resEntry = resInfo

====
